---- MODULE Spec2Model ----
(***************************************************************************)
(* A model of the turn-sequence repository: the alternation metric, the   *)
(* grid sampler, and the construction of a place model (geocode, grid      *)
(* points, road snapping, pairwise routes).                                *)
(*                                                                         *)
(* Four state machines share the module, each with its own variables and  *)
(* its own specification:                                                  *)
(*   SpecMetric  the alternation metrics, applied to bounded inputs        *)
(*   SpecChain   the helpers that turn a route's maneuvers into turns,     *)
(*               double turns and a metric, applied one after the other    *)
(*   SpecGrid    PlacePoints._generate_grid_points, one loop test a step,  *)
(*               called a second time on the same polygon once it returned *)
(*   Spec        MapModel.__init__ and what it calls, one external call    *)
(*               (geocode, snap, route) a step; the route loop of          *)
(*               database.get_double_turns; database.get_valid_city_points *)
(*               on a CityPoints; a direct call of get_route_data          *)
(***************************************************************************)
EXTENDS Integers, Sequences, FiniteSets, TLC

(***************************************************************************)
(* Bounds of the model.                                                    *)
(***************************************************************************)
\* longest double-turn sequence handed to a metric
MaxTokens == 3
\* largest granularity handed to the grid sampler
MaxGranularity == 2
\* granularities run from -MaxNegGranularity
MaxNegGranularity == 1
\* longest list of maneuvers handed to the helpers
MaxManeuvers == 3
\* largest width and height of a polygon's bounding rectangle
MaxExtent == 2
\* how many steps below the rectangle the model follows a loop that never ends
MaxExcursion == 2

\* largest number of grid points a place is sampled into
MaxPoints == 3
\* largest choose_random handed to Directions
MaxChoose == 2
\* largest num_points handed to get_valid_city_points
MaxNumPoints == 2

\* Python's None
None == [tag |-> "None"]
\* an attribute that was never assigned
Unset == [tag |-> "Unset"]
\* a list held by an attribute or a local
List(items) == [tag |-> "list", items |-> items]
\* an int held where None may be held too
Int_(v) == [tag |-> "int", value |-> v]
\* no function was called yet, no exception was raised
NotCalled == "not called"
NoError == "no error"

VARIABLES
  \* ---- the alternation metrics (SpecMetric)
  double_turns,     \* the argument the metric is called with
  metric_fn,        \* which implementation was called, NotCalled before the call
  metric_result,    \* what the call returned or raised, None before the call
  \* ---- the helpers applied to one route (SpecChain)
  ch_pc,            \* which helper was applied last
  ch_maneuvers,     \* the list of maneuver labels of the route
  ch_turns,         \* what get_turns_from_maneuvers returned
  ch_int_turns,     \* what the loop of process_directions returned
  ch_double_turns,  \* what get_double_turns returned
  ch_metric_fn,     \* the metric applied
  ch_metric_result, \* what it returned or raised
  \* ---- the grid sampler (SpecGrid)
  gs_pc,            \* where _generate_grid_points stands
  num,              \* its argument: the granularity
  bounds,           \* self.place.polygon.bounds
  fl_err,           \* the rounding errors of the two float divisions
  dx, dy,           \* the steps
  x, y,             \* the loop variables
  gs_points,        \* the local list points
  accepted,         \* candidates polygon.contains answered True for
  rejected,         \* candidates polygon.contains answered False for
  gs_run,           \* which call of the sampler on this polygon is running: 1 or 2
  gs_first,         \* what the first call returned, Unset until it has
  \* ---- the construction of a place model (Spec)
  pc,               \* where the construction stands
  module,           \* the entry point run: MapModel (map_model), PlacePoints of
                    \* city_points.py, or a function of database.py
  api_key,          \* the api_key argument: "key" or None
  choose_random,    \* the choose_random argument of Directions
  place,            \* MapModel.place
  grid_points,      \* PlacePoints.grid_points
  snap_i,           \* the position of the loop of _snap_grid_points_to_road
  snap_acc,         \* its local list snapped_points
  snapped_points,   \* PlacePoints.snapped_points
  points_df,        \* PlacePoints.df
  dir_points,       \* the list points handed to Directions._to_df
  origin_id,        \* the position of its outer loop
  destination_id,   \* the position of its inner loop
  cols,             \* its five column lists
  directions_df,    \* Directions.df
  directions,       \* MapModel.directions
  all_double_turns, \* the local list of database.get_double_turns
  route_result,     \* the route_data a direct call of get_route_data returned
  sampled,          \* what the grid sampler returned for the place, Unset before
  num_points,       \* the num_points argument of get_valid_city_points
  valid_points,     \* its local list valid_points
  returned_points,  \* what it returned, Unset before
  error,            \* the exception the construction ended with
  requests          \* the external calls made so far, in order

metric_vars == <<double_turns, metric_fn, metric_result>>
grid_vars == <<gs_pc, num, bounds, fl_err, dx, dy, x, y, gs_points, accepted, rejected,
               gs_run, gs_first>>
pipe_vars == <<pc, module, api_key, choose_random, place, grid_points, snap_i, snap_acc,
               snapped_points, points_df, dir_points, origin_id, destination_id, cols,
               directions_df, directions, all_double_turns, route_result, sampled,
               num_points, valid_points, returned_points, error, requests>>
chain_vars == <<ch_pc, ch_maneuvers, ch_turns, ch_int_turns, ch_double_turns, ch_metric_fn,
                ch_metric_result>>
vars == <<metric_vars, grid_vars, pipe_vars, chain_vars>>

Abs(n) == IF n < 0 THEN 0 - n ELSE n
Sgn(n) == IF n < 0 THEN 0 - 1 ELSE IF n = 0 THEN 0 ELSE 1
RECURSIVE SeqsUpTo(_, _)
\* all sequences over S of length at most n
SeqsUpTo(S, n) ==
  IF n = 0 THEN {<<>>}
  ELSE LET shorter == SeqsUpTo(S, n - 1)
       IN shorter \cup {Append(s, e) : s \in {t \in shorter : Len(t) = n - 1}, e \in S}

(***************************************************************************)
(* The alternation metrics.  A call returns a fraction, kept exact as      *)
(* numerator and denominator, or raises.                                   *)
(***************************************************************************)
\* the four double turns, and a token that is none of them
Tokens == {"LL", "LR", "RL", "RR", "XX"}
\* a check that lets every token through
AnyToken == Tokens
\* ["LL", "RR", "LR", "RL"]
ValidTokens == {"LL", "RR", "LR", "RL"}

Returned(n, d) == [kind |-> "value", numer |-> n, denom |-> d]
Raised(e) == [kind |-> "raise", error |-> e]

\* a division that yields a value (nan) where Python raises
TrueDiv_NaN(n, d) == Returned(n, d)

\* Python's int / int
TrueDiv(n, d) == IF d = 0 THEN Raised("ZeroDivisionError") ELSE Returned(n, d)

RECURSIVE analysis_metric_loop(_, _, _)
\* the for loop of analysis.alternating_turn_metric from element i on
analysis_metric_loop(dts, i, num_alternating_turns) ==
  IF i > Len(dts) THEN TrueDiv(num_alternating_turns, Len(dts))
  ELSE IF dts[i] \notin ValidTokens THEN Raised("ValueError")
  ELSE IF dts[i] = "RL" \/ dts[i] = "LR"
       THEN analysis_metric_loop(dts, i + 1, num_alternating_turns + 1)
       ELSE analysis_metric_loop(dts, i + 1, num_alternating_turns)

alternating_turn_metric(dts) == analysis_metric_loop(dts, 1, 0)

RECURSIVE utils_metric_loop(_, _, _)
\* the for loop of utils.alternating_metric (src/src/utils.py) from element i on
utils_metric_loop(dts, i, num_alternating_turns) ==
  IF i > Len(dts) THEN TrueDiv(num_alternating_turns, Len(dts))
  ELSE IF dts[i] \notin ValidTokens THEN Raised("ValueError")
  ELSE IF dts[i] = "RL" \/ dts[i] = "RL"
       THEN utils_metric_loop(dts, i + 1, num_alternating_turns + 1)
       ELSE utils_metric_loop(dts, i + 1, num_alternating_turns)

utils_alternating_metric(dts) == utils_metric_loop(dts, 1, 0)

MetricIdle ==
  /\ double_turns = <<>>
  /\ metric_fn = NotCalled
  /\ metric_result = None

MetricInit ==
  /\ double_turns \in SeqsUpTo(Tokens, MaxTokens)
  /\ metric_fn = NotCalled
  /\ metric_result = None

Call_alternating_turn_metric ==
  /\ metric_fn = NotCalled
  /\ metric_fn' = "analysis.alternating_turn_metric"
  /\ metric_result' = alternating_turn_metric(double_turns)
  /\ UNCHANGED <<double_turns, grid_vars, pipe_vars, chain_vars>>

Call_utils_alternating_metric ==
  /\ metric_fn = NotCalled
  /\ metric_fn' = "utils.alternating_metric"
  /\ metric_result' = utils_alternating_metric(double_turns)
  /\ UNCHANGED <<double_turns, grid_vars, pipe_vars, chain_vars>>

(***************************************************************************)
(* The grid sampler, PlacePoints._generate_grid_points.                    *)
(*                                                                         *)
(* Coordinates are fixed-point numbers: a coordinate v of the polygon is   *)
(* the integer v * |num| * Scale, so that the quotient (maxx - minx)/num   *)
(* is the integer (maxx - minx) * Scale up to its sign, and the rounding   *)
(* error of the float division is fl_err, at most one unit.  Additions     *)
(* are exact.  Scale keeps the error accumulated over num steps below one  *)
(* step, as it is for a polygon far wider than a float's resolution.       *)
(***************************************************************************)
Scale == 2 * (MaxGranularity + 2)

\* a coordinate of the polygon in the sampler's units
Fix(v) == v * Abs(num) * Scale

\* (hi - lo)/num with its rounding error; an exact zero is not rounded
StepOf(lo, hi, err) ==
  IF hi = lo THEN 0 ELSE Sgn(num) * (hi - lo) * Scale + err

\* bounds are those of the polygon: a point on or outside the rectangle is
\* not contained
StrictlyInsideBounds(c) ==
  /\ Fix(bounds.minx) < c[1] /\ c[1] < Fix(bounds.maxx)
  /\ Fix(bounds.miny) < c[2] /\ c[2] < Fix(bounds.maxy)

\* a polygon that counts its boundary as contained
InsideOrOnBounds(c) ==
  /\ Fix(bounds.minx) <= c[1] /\ c[1] <= Fix(bounds.maxx)
  /\ Fix(bounds.miny) <= c[2] /\ c[2] <= Fix(bounds.maxy)

\* whether the polygon may contain c at all
PolygonMayContain(c) == StrictlyInsideBounds(c)

\* what self.place.polygon.contains(candidate) may answer: the polygon is
\* immutable, so a candidate tested before gets the same answer
contains(c) ==
  IF c \in accepted THEN {TRUE}
  ELSE IF c \in rejected THEN {FALSE}
  ELSE IF PolygonMayContain(c) THEN BOOLEAN
  ELSE {FALSE}

Rectangles ==
  {[minx |-> ox, miny |-> oy, maxx |-> ox + w, maxy |-> oy + h] :
     ox \in {0 - 1, 0}, oy \in {0}, w \in 0..MaxExtent, h \in 0..MaxExtent}

GridIdle ==
  /\ gs_pc = "idle"
  /\ num = 1
  /\ bounds = [minx |-> 0, miny |-> 0, maxx |-> 0, maxy |-> 0]
  /\ fl_err = [x |-> 0, y |-> 0]
  /\ dx = 0 /\ dy = 0 /\ x = 0 /\ y = 0
  /\ gs_points = <<>>
  /\ accepted = {} /\ rejected = {}
  /\ gs_run = 1
  /\ gs_first = Unset

GridInit ==
  /\ gs_pc = "start"
  /\ num \in (0 - MaxNegGranularity)..MaxGranularity
  /\ bounds \in Rectangles
  /\ fl_err \in [x : {0 - 1, 0, 1}, y : {0 - 1, 0, 1}]
  /\ dx = 0 /\ dy = 0 /\ x = 0 /\ y = 0
  /\ gs_points = <<>>
  /\ accepted = {} /\ rejected = {}
  /\ gs_run = 1
  /\ gs_first = Unset

\* a sampler whose list outlives the call, as a list held by the object would
KeptPoints == gs_points

\* line 100: points = []
NewPoints == <<>>

\* lines 97-103: the steps; a zero granularity raises ZeroDivisionError
GridStart ==
  /\ gs_pc = "start"
  /\ IF num = 0
     THEN /\ gs_pc' = "raised"
          /\ UNCHANGED <<dx, dy, x, gs_points>>
     ELSE /\ dx' = StepOf(bounds.minx, bounds.maxx, fl_err.x)
          /\ dy' = StepOf(bounds.miny, bounds.maxy, fl_err.y)
          /\ gs_points' = NewPoints
          /\ x' = Fix(bounds.minx)
          /\ gs_pc' = "outer"
  /\ UNCHANGED <<num, bounds, fl_err, y, accepted, rejected, gs_run, gs_first>>
  /\ UNCHANGED <<metric_vars, pipe_vars, chain_vars>>

\* line 104, then 105 or 113
GridOuterTest ==
  /\ gs_pc = "outer"
  /\ IF x <= Fix(bounds.maxx)
     THEN /\ y' = Fix(bounds.miny)
          /\ gs_pc' = "inner"
     ELSE /\ gs_pc' = "returned"
          /\ UNCHANGED y
  /\ UNCHANGED <<num, bounds, fl_err, dx, dy, x, gs_points, accepted, rejected>>
  /\ UNCHANGED <<gs_run, gs_first>>
  /\ UNCHANGED <<metric_vars, pipe_vars, chain_vars>>

\* a sampler that keeps a candidate whatever the polygon answers
KeepCandidate_Always(inside) == TRUE

\* the guard of line 109
KeepCandidate(inside) == inside

\* a sampler that puts a kept candidate at the front of the list
points_prepend(points, candidate) == <<candidate>> \o points

\* line 109: points.append(candidate)
points_append(points, candidate) == Append(points, candidate)

\* line 106, then 107 or 111
GridInnerTest ==
  /\ gs_pc = "inner"
  /\ IF y <= Fix(bounds.maxy)
     THEN /\ gs_pc' = "candidate"
          /\ UNCHANGED x
     ELSE /\ x' = x + dx
          /\ gs_pc' = "outer"
  /\ UNCHANGED <<num, bounds, fl_err, dx, dy, y, gs_points, accepted, rejected>>
  /\ UNCHANGED <<gs_run, gs_first>>
  /\ UNCHANGED <<metric_vars, pipe_vars, chain_vars>>

\* lines 107-110: one candidate.  Where y only moves away from maxy the loop
\* never ends, and the model follows it MaxExcursion steps below miny.
GridCandidate ==
  /\ gs_pc = "candidate"
  /\ y >= Fix(bounds.miny) - MaxExcursion * Abs(dy)
  /\ \E inside \in contains(<<x, y>>) :
       /\ accepted' = IF inside THEN accepted \cup {<<x, y>>} ELSE accepted
       /\ rejected' = IF inside THEN rejected ELSE rejected \cup {<<x, y>>}
       /\ gs_points' = IF KeepCandidate(inside) THEN points_append(gs_points, <<x, y>>)
                                                 ELSE gs_points
  /\ y' = y + dy
  /\ gs_pc' = "inner"
  /\ UNCHANGED <<num, bounds, fl_err, dx, dy, x, gs_run, gs_first>>
  /\ UNCHANGED <<metric_vars, pipe_vars, chain_vars>>

\* the sampler is called again on the same polygon with the same granularity:
\* what the first call returned is kept for comparison.  The polygon is the
\* same, so are its bounds and its answers; the float divisions are the same,
\* so are their rounding errors.
GridRerun ==
  /\ gs_pc = "returned"
  /\ gs_run = 1
  /\ gs_first' = List(gs_points)
  /\ gs_run' = 2
  /\ gs_pc' = "start"
  /\ dx' = 0 /\ dy' = 0 /\ x' = 0 /\ y' = 0
  /\ UNCHANGED <<num, bounds, fl_err, gs_points, accepted, rejected>>
  /\ UNCHANGED <<metric_vars, pipe_vars, chain_vars>>

(***************************************************************************)
(* The pure helpers of turn_sequence/utils.py.                             *)
(***************************************************************************)
\* shapely's Point(x, y); == on two Points compares their coordinates
Point(px, py) == [x |-> px, y |-> py]

format_route_body(origin, destination) ==
  [origin |-> [latitude |-> origin.y, longitude |-> origin.x],
   destination |-> [latitude |-> destination.y, longitude |-> destination.x],
   travelMode |-> "DRIVE"]

\* A maneuver label is the sequence of its words: TURN_LEFT is <<"TURN", "LEFT">>.
\* "LEFT" in m
Contains(m, word) == \E i \in 1..Len(m) : m[i] = word

\* a step of a route: {} (no navigation instruction under the field mask) or a
\* step with a maneuver
EmptyStep == [tag |-> "{}"]
Step(m) == [tag |-> "step", maneuver |-> m]

RECURSIVE maneuvers_of_steps(_)
\* [step['navigationInstruction']['maneuver'] for step in steps if step]
maneuvers_of_steps(steps) ==
  IF steps = <<>> THEN <<>>
  ELSE IF Head(steps) = EmptyStep THEN maneuvers_of_steps(Tail(steps))
  ELSE <<Head(steps).maneuver>> \o maneuvers_of_steps(Tail(steps))

\* route_data is {} (empty is TRUE) or holds the steps of its first route's first leg
get_maneuvers_from_routes(routes) ==
  IF routes.empty THEN <<>> ELSE maneuvers_of_steps(routes.steps)

\* a helper that tests RIGHT before LEFT
RECURSIVE get_turns_RightFirst(_)
get_turns_RightFirst(maneuvers) ==
  IF maneuvers = <<>> THEN <<>>
  ELSE IF Contains(Head(maneuvers), "RIGHT")
       THEN <<"R">> \o get_turns_RightFirst(Tail(maneuvers))
  ELSE IF Contains(Head(maneuvers), "LEFT")
       THEN <<"L">> \o get_turns_RightFirst(Tail(maneuvers))
  ELSE get_turns_RightFirst(Tail(maneuvers))

RECURSIVE get_turns_from_maneuvers(_)
get_turns_from_maneuvers(maneuvers) ==
  IF maneuvers = <<>> THEN <<>>
  ELSE IF Contains(Head(maneuvers), "LEFT")
       THEN <<"L">> \o get_turns_from_maneuvers(Tail(maneuvers))
  ELSE IF Contains(Head(maneuvers), "RIGHT")
       THEN <<"R">> \o get_turns_from_maneuvers(Tail(maneuvers))
  ELSE get_turns_from_maneuvers(Tail(maneuvers))

\* turn + t_next on two one-letter strings
Concat(a, b) ==
  CASE a = "L" /\ b = "L" -> "LL"
    [] a = "L" /\ b = "R" -> "LR"
    [] a = "R" /\ b = "L" -> "RL"
    [] a = "R" /\ b = "R" -> "RR"

\* a helper that pairs the turns two by two, without overlap
double_turns_Disjoint(turns) ==
  [index \in 1..(Len(turns) \div 2) |-> Concat(turns[2 * index - 1], turns[2 * index])]

get_double_turns(turns) ==
  [index \in 1..(IF Len(turns) = 0 THEN 0 ELSE Len(turns) - 1) |->
     Concat(turns[index], turns[index + 1])]

(***************************************************************************)
(* The helpers applied to one route, one after the other: maneuvers to     *)
(* turns, turns to double turns, double turns to the metric; and the       *)
(* first revision (src/src/turn_sequence.py), which keeps turns as 0 and 1 *)
(* and computes the metric on the turns themselves.                        *)
(***************************************************************************)
\* maneuver labels: with LEFT, with RIGHT, with neither, with both, and ""
Labels ==
  {<<"TURN", "LEFT">>, <<"TURN", "RIGHT">>, <<"STRAIGHT">>, <<"LEFT", "RIGHT">>, <<>>}

RECURSIVE process_directions_turns(_)
\* the loop of process_directions, lines 53-59 of src/src/turn_sequence.py
process_directions_turns(maneuvers) ==
  IF maneuvers = <<>> THEN <<>>
  ELSE IF Contains(Head(maneuvers), "LEFT")
       THEN <<0>> \o process_directions_turns(Tail(maneuvers))
  ELSE IF Contains(Head(maneuvers), "RIGHT")
       THEN <<1>> \o process_directions_turns(Tail(maneuvers))
  ELSE process_directions_turns(Tail(maneuvers))

\* a metric that divides the count by the number of turns
turn_sequence_metric_OverLen(turns) ==
  IF Len(turns) = 0 \/ Len(turns) = 1 THEN Raised("ValueError")
  ELSE TrueDiv(Cardinality({index \in 1..(Len(turns) - 1) : turns[index] # turns[index + 1]}),
               Len(turns))

\* alternating_metric of src/src/turn_sequence.py, on turns
turn_sequence_alternating_metric(turns) ==
  IF Len(turns) = 0 \/ Len(turns) = 1 THEN Raised("ValueError")
  ELSE TrueDiv(Cardinality({index \in 1..(Len(turns) - 1) : turns[index] # turns[index + 1]}),
               Len(turns) - 1)

ChainIdle ==
  /\ ch_pc = "idle"
  /\ ch_maneuvers = <<>>
  /\ ch_turns = Unset
  /\ ch_int_turns = Unset
  /\ ch_double_turns = Unset
  /\ ch_metric_fn = NotCalled
  /\ ch_metric_result = None

ChainInit ==
  /\ ch_pc = "maneuvers"
  /\ ch_maneuvers \in SeqsUpTo(Labels, MaxManeuvers)
  /\ ch_turns = Unset
  /\ ch_int_turns = Unset
  /\ ch_double_turns = Unset
  /\ ch_metric_fn = NotCalled
  /\ ch_metric_result = None

Call_get_turns_from_maneuvers ==
  /\ ch_pc = "maneuvers"
  /\ ch_turns' = List(get_turns_from_maneuvers(ch_maneuvers))
  /\ ch_pc' = "turns"
  /\ UNCHANGED <<ch_maneuvers, ch_int_turns, ch_double_turns, ch_metric_fn, ch_metric_result>>
  /\ UNCHANGED <<metric_vars, grid_vars, pipe_vars>>

Call_get_double_turns ==
  /\ ch_pc = "turns"
  /\ ch_double_turns' = List(get_double_turns(ch_turns.items))
  /\ ch_pc' = "double_turns"
  /\ UNCHANGED <<ch_maneuvers, ch_turns, ch_int_turns, ch_metric_fn, ch_metric_result>>
  /\ UNCHANGED <<metric_vars, grid_vars, pipe_vars>>

\* analysis.alternating_turn_metric on the double turns of the route
Call_metric_on_double_turns ==
  /\ ch_pc = "double_turns"
  /\ ch_metric_fn' = "analysis.alternating_turn_metric"
  /\ ch_metric_result' = alternating_turn_metric(ch_double_turns.items)
  /\ ch_pc' = "metric"
  /\ UNCHANGED <<ch_maneuvers, ch_turns, ch_int_turns, ch_double_turns>>
  /\ UNCHANGED <<metric_vars, grid_vars, pipe_vars>>

\* utils.alternating_metric (src/src/utils.py) on the double turns of the route
Call_utils_metric_on_double_turns ==
  /\ ch_pc = "double_turns"
  /\ ch_metric_fn' = "utils.alternating_metric"
  /\ ch_metric_result' = utils_alternating_metric(ch_double_turns.items)
  /\ ch_pc' = "metric"
  /\ UNCHANGED <<ch_maneuvers, ch_turns, ch_int_turns, ch_double_turns>>
  /\ UNCHANGED <<metric_vars, grid_vars, pipe_vars>>

Call_process_directions ==
  /\ ch_pc = "maneuvers"
  /\ ch_int_turns' = List(process_directions_turns(ch_maneuvers))
  /\ ch_pc' = "int_turns"
  /\ UNCHANGED <<ch_maneuvers, ch_turns, ch_double_turns, ch_metric_fn, ch_metric_result>>
  /\ UNCHANGED <<metric_vars, grid_vars, pipe_vars>>

Call_turn_sequence_alternating_metric ==
  /\ ch_pc = "int_turns"
  /\ ch_metric_fn' = "turn_sequence.alternating_metric"
  /\ ch_metric_result' = turn_sequence_alternating_metric(ch_int_turns.items)
  /\ ch_pc' = "metric"
  /\ UNCHANGED <<ch_maneuvers, ch_turns, ch_int_turns, ch_double_turns>>
  /\ UNCHANGED <<metric_vars, grid_vars, pipe_vars>>

(***************************************************************************)
(* The external services and what they may answer.                         *)
(***************************************************************************)
\* the locations the Roads API snaps to
RoadLocations ==
  {[latitude |-> 31, longitude |-> 41], [latitude |-> 32, longitude |-> 42]}

\* raise_for_status raises; the body carries error_message; or snappedPoints
SnapResponses ==
  {[kind |-> "HTTPError"], [kind |-> "error_message"],
   [kind |-> "json", snappedPoints |-> <<>>]}
  \cup {[kind |-> "json", snappedPoints |-> <<l>>] : l \in RoadLocations}

StepLists ==
  {<<EmptyStep, Step(<<"TURN", "LEFT">>), Step(<<"STRAIGHT">>), Step(<<"TURN", "RIGHT">>)>>,
   <<Step(<<"TURN", "SLIGHT", "RIGHT">>)>>}

RouteResponses ==
  {[kind |-> "HTTPError"], [kind |-> "error_message"],
   [kind |-> "json", empty |-> TRUE, steps |-> <<>>]}
  \cup {[kind |-> "json", empty |-> FALSE, steps |-> st] : st \in StepLists}

GeocodeResponses == {"found", "empty", "raises"}

\* what the sampler returns for the place: points in raster order, x-major
GridPointAt(i) == Point(10 + ((i - 1) \div 2), 20 + ((i - 1) % 2))
GridOutputs == {[i \in 1..n |-> GridPointAt(i)] : n \in 0..MaxPoints}

\* the request of _snap_to_road: path = "{lat},{lon}" with lon = point.x, lat = point.y
SnapRequest(point) == [latitude |-> point.y, longitude |-> point.x]

\* lines 148-156 of map_model.py, lines 124-132 of city_points.py, lines 79-87
\* of database.py
snap_result(mod, response) ==
  IF response.snappedPoints = <<>> THEN None
  ELSE LET snapped_location == response.snappedPoints[1]
           snapped_lat == snapped_location.latitude
           snapped_lon == snapped_location.longitude
       IN IF mod = "map_model" THEN Point(snapped_lon, snapped_lat)
                               ELSE Point(snapped_lat, snapped_lon)

\* the body of the loop of _snap_grid_points_to_road: map_model.py keeps None in
\* its place, city_points.py skips it
snap_append(mod, acc, snapped_point) ==
  IF mod = "city_points" /\ snapped_point = None THEN acc
  ELSE Append(acc, snapped_point)

(***************************************************************************)
(* The tables.                                                             *)
(***************************************************************************)
\* a cell of a float column: a number, or NaN where the list held None
Cell(v) == [tag |-> "num", value |-> v]
NaN == [tag |-> "NaN"]
\* gdf.loc[0, 'osm_id']
PlaceId == "osm_id"

\* PlacePoints._to_df; snapped is None or the list of snapped points
PlacePoints_to_df(grid, snapped) ==
  [i \in 1..Len(grid) |->
     [id |-> i - 1,
      place_id |-> PlaceId,
      grid_lat |-> Cell(grid[i].y),
      grid_lon |-> Cell(grid[i].x),
      snapped_lat |-> IF snapped = None THEN NaN
                      ELSE IF snapped.items[i] = None THEN NaN
                      ELSE Cell(snapped.items[i].y),
      snapped_lon |-> IF snapped = None THEN NaN
                      ELSE IF snapped.items[i] = None THEN NaN
                      ELSE Cell(snapped.items[i].x)]]

EmptyCols ==
  [origin_id_col |-> <<>>, destination_id_col |-> <<>>, raw_directions_col |-> <<>>,
   lr_directions_col |-> <<>>, double_directions_col |-> <<>>]

\* the attributes of config.DirectionColumns, the class of the direction_columns
\* MapModel hands to Directions
DirectionColumns ==
  {"id", "origin_id", "destination_id", "place_id", "raw_directions", "lr_directions",
   "direction_pairs"}

\* the attributes Directions._to_df reads of direction_columns, lines 238-244
DirectionColumnsRead ==
  {"id", "origin_id", "destination_id", "place_id", "raw_directions", "lr_directions",
   "double_directions"}

\* lines 236-246 of Directions._to_df
Directions_df(c) ==
  [i \in 1..Len(c.raw_directions_col) |->
     [id |-> i - 1,
      origin_id |-> c.origin_id_col[i],
      destination_id |-> c.destination_id_col[i],
      place_id |-> PlaceId,
      raw_directions |-> c.raw_directions_col[i],
      lr_directions |-> c.lr_directions_col[i],
      double_directions |-> c.double_directions_col[i]]]

(***************************************************************************)
(* The construction of a place model.                                      *)
(***************************************************************************)
PipeIdle ==
  /\ pc = "idle"
  /\ module = "map_model"
  /\ api_key = None
  /\ choose_random = None
  /\ place = Unset
  /\ grid_points = Unset
  /\ snap_i = 0
  /\ snap_acc = <<>>
  /\ snapped_points = Unset
  /\ points_df = Unset
  /\ dir_points = <<>>
  /\ origin_id = 0
  /\ destination_id = 0
  /\ cols = EmptyCols
  /\ directions_df = Unset
  /\ directions = Unset
  /\ all_double_turns = <<>>
  /\ route_result = Unset
  /\ sampled = Unset
  /\ num_points = 0
  /\ valid_points = <<>>
  /\ returned_points = Unset
  /\ error = NoError
  /\ requests = <<>>

\* MapModel passes no choose_random; a caller that builds Directions itself may
ChooseRandomValues == {None} \cup {Int_(k) : k \in (0 - 1)..MaxChoose}

\* the points database.get_double_turns is handed: snapped points, as
\* database.snap_to_road builds them
SnappedByDatabase ==
  {snap_result("database", [kind |-> "json", snappedPoints |-> <<l>>]) : l \in RoadLocations}
ValidPointLists == SeqsUpTo(SnappedByDatabase, MaxPoints)

\* the origin and the destination a direct call of get_route_data is handed
PointPairs == {<<o, d>> : o \in SnappedByDatabase, d \in SnappedByDatabase}

\* a construction starts at Place; a function of database.py starts with its
\* arguments: get_valid_city_points with a CityPoints that CityPoints.__init__,
\* lines 16-23 of city_sampler.py, has built, its _grid_points what the sampler
\* returned, an empty list included
PipeInit ==
  /\ module \in {"map_model", "city_points", "database", "get_route_data",
                 "get_valid_city_points"}
  /\ pc = CASE module = "database" -> "get_double_turns"
            [] module = "get_route_data" -> "get_route_data"
            [] module = "get_valid_city_points" -> "get_valid_city_points"
            [] OTHER -> "Place"
  /\ api_key \in (IF module \in {"database", "get_route_data", "get_valid_city_points"}
                  THEN {[tag |-> "key"]} ELSE {None, [tag |-> "key"]})
  /\ choose_random \in (IF module = "map_model" THEN ChooseRandomValues ELSE {None})
  /\ place = Unset
  /\ grid_points \in (IF module = "get_valid_city_points"
                      THEN {List(pts) : pts \in GridOutputs} ELSE {Unset})
  /\ sampled = grid_points
  /\ num_points \in (IF module = "get_valid_city_points" THEN 0..MaxNumPoints ELSE {0})
  /\ valid_points = <<>>
  /\ returned_points = Unset
  /\ snap_i = 0
  /\ snap_acc = <<>>
  /\ snapped_points = Unset
  /\ points_df = Unset
  /\ dir_points \in (CASE module = "database" -> ValidPointLists
                       [] module = "get_route_data" -> PointPairs
                       [] OTHER -> {<<>>})
  /\ origin_id = 0
  /\ destination_id = 0
  /\ cols = EmptyCols
  /\ directions_df = Unset
  /\ directions = Unset
  /\ all_double_turns = <<>>
  /\ route_result = Unset
  /\ error = NoError
  /\ requests = <<>>

\* an exception that is caught where it is raised: the construction goes on
Raise_Continue(e) ==
  /\ UNCHANGED pc
  /\ error' = e

\* an exception nothing catches ends the construction
Raise(e) ==
  /\ pc' = "error"
  /\ error' = e

Called(api, request, response) ==
  requests' = Append(requests, [api |-> api, request |-> request, response |-> response])

\* Place.__init__: the geocode call
Place_init ==
  /\ pc = "Place"
  /\ \E response \in GeocodeResponses :
       /\ Called("geocode", [name |-> "place"], [kind |-> response])
       /\ CASE response = "found" ->
                 /\ place' = [tag |-> "Place", id |-> PlaceId]
                 /\ pc' = "PlacePoints"
                 /\ UNCHANGED error
            [] response = "empty" ->
                 /\ Raise("ValueError: Place data not returned")
                 /\ UNCHANGED place
            [] response = "raises" ->
                 /\ Raise("geocode error")
                 /\ UNCHANGED place
  /\ UNCHANGED <<route_result, sampled, num_points, valid_points, returned_points>>
  /\ UNCHANGED <<module, api_key, choose_random, grid_points, snap_i, snap_acc,
                 snapped_points, points_df, dir_points, origin_id, destination_id, cols,
                 directions_df, directions, all_double_turns>>
  /\ UNCHANGED <<metric_vars, grid_vars, chain_vars>>

\* a constructor that never finds the grid empty
NoGridPoints_Never(pts) == FALSE

\* if not self.grid_points
NoGridPoints(pts) == Len(pts) = 0

\* a constructor that takes every key, None too, for a key
HasKey_Always(key) == TRUE

\* if api_key is not None
HasKey(key) == key # None

\* PlacePoints.__init__ up to its first snap call; without a key, the rest of
\* PlacePoints.__init__ and of MapModel.__init__
PlacePoints_init ==
  /\ pc = "PlacePoints"
  /\ \E pts \in GridOutputs :
       /\ grid_points' = List(pts)
       /\ sampled' = List(pts)
       /\ IF NoGridPoints(pts)
          THEN /\ Raise("ValueError: No points found")
               /\ UNCHANGED <<snap_i, snap_acc, snapped_points, points_df, directions>>
          ELSE IF HasKey(api_key)
          THEN /\ snap_i' = 1
               /\ snap_acc' = <<>>
               /\ pc' = "snap"
               /\ UNCHANGED <<snapped_points, points_df, directions, error>>
          ELSE /\ snapped_points' = None
               /\ points_df' = IF module = "map_model"
                               THEN List(PlacePoints_to_df(pts, None)) ELSE Unset
               /\ directions' = IF module = "map_model" THEN None ELSE Unset
               /\ pc' = "done"
               /\ UNCHANGED <<snap_i, snap_acc, error>>
  /\ UNCHANGED <<route_result, num_points, valid_points, returned_points>>
  /\ UNCHANGED <<module, api_key, choose_random, place, dir_points, origin_id,
                 destination_id, cols, directions_df, all_double_turns, requests>>
  /\ UNCHANGED <<metric_vars, grid_vars, chain_vars>>

\* a loop that takes a failed snap call for a point with no road near it
OnSnapFailure_AsNotFound(e) ==
  /\ snap_acc' = Append(snap_acc, None)
  /\ snap_i' = snap_i + 1
  /\ UNCHANGED <<pc, error>>

\* raise_for_status (line 143) or check_for_errors (line 145) raises in
\* _snap_to_road: nothing in _snap_grid_points_to_road, PlacePoints.__init__ or
\* MapModel.__init__ catches it
OnSnapFailure(e) ==
  /\ Raise(e)
  /\ UNCHANGED <<snap_i, snap_acc>>

\* one pass of the loop of _snap_grid_points_to_road: one call of _snap_to_road
snap_to_road_step ==
  /\ pc = "snap"
  /\ snap_i <= Len(grid_points.items)
  /\ LET point == grid_points.items[snap_i] IN
     \E response \in SnapResponses :
       /\ Called("snap", SnapRequest(point), response)
       /\ CASE response.kind = "HTTPError" ->
                 OnSnapFailure("HTTPError")
            [] response.kind = "error_message" ->
                 OnSnapFailure("RuntimeError: Google API Error")
            [] response.kind = "json" ->
                 /\ snap_acc' = snap_append(module, snap_acc, snap_result(module, response))
                 /\ snap_i' = snap_i + 1
                 /\ UNCHANGED <<pc, error>>
  /\ UNCHANGED <<route_result, sampled, num_points, valid_points, returned_points>>
  /\ UNCHANGED <<module, api_key, choose_random, place, grid_points, snapped_points,
                 points_df, dir_points, origin_id, destination_id, cols, directions_df,
                 directions, all_double_turns>>
  /\ UNCHANGED <<metric_vars, grid_vars, chain_vars>>

\* the end of _snap_grid_points_to_road and of PlacePoints.__init__
snap_finish ==
  /\ pc = "snap"
  /\ snap_i > Len(grid_points.items)
  /\ IF snap_acc = <<>>
     THEN /\ Raise("ValueError: Could not find any valid points")
          /\ UNCHANGED <<snapped_points, points_df>>
     ELSE /\ snapped_points' = List(snap_acc)
          /\ points_df' = IF module = "map_model"
                          THEN List(PlacePoints_to_df(grid_points.items, List(snap_acc)))
                          ELSE Unset
          /\ pc' = IF module = "map_model" THEN "Directions" ELSE "done"
          /\ UNCHANGED error
  /\ UNCHANGED <<route_result, sampled, num_points, valid_points, returned_points>>
  /\ UNCHANGED <<module, api_key, choose_random, place, grid_points, snap_i, snap_acc,
                 dir_points, origin_id, destination_id, cols, directions_df, directions,
                 all_double_turns, requests>>
  /\ UNCHANGED <<metric_vars, grid_vars, chain_vars>>

\* the orders random.shuffle may leave a list in
Shuffles(s) ==
  {[i \in 1..Len(s) |-> s[f[i]]] :
     f \in {g \in [1..Len(s) -> 1..Len(s)] : \A i, j \in 1..Len(s) : g[i] = g[j] => i = j}}

\* a slice that keeps the whole list
Prefix_Whole(s, k) == s

\* s[:k]: the first k elements, all of them where k > len(s); for a negative k
\* all but the last -k
Prefix(s, k) ==
  IF k >= 0 THEN SubSeq(s, 1, IF k < Len(s) THEN k ELSE Len(s))
  ELSE SubSeq(s, 1, IF Len(s) + k > 0 THEN Len(s) + k ELSE 0)

\* [snapped_point for snapped_point in ... if snapped_point is not None]
NotNone(s) == SelectSeq(s, LAMBDA e : e # None)

\* Directions.__init__, lines 172-178
Directions_init ==
  /\ pc = "Directions"
  /\ LET snapped == NotNone(snapped_points.items) IN
     dir_points' \in (IF choose_random # None
                      THEN {Prefix(sh, choose_random.value) : sh \in Shuffles(snapped)}
                      ELSE {snapped})
  /\ origin_id' = 0
  /\ destination_id' = 0
  /\ cols' = EmptyCols
  /\ pc' = "to_df"
  /\ UNCHANGED <<route_result, sampled, num_points, valid_points, returned_points>>
  /\ UNCHANGED <<module, api_key, choose_random, place, grid_points, snap_i, snap_acc,
                 snapped_points, points_df, directions_df, directions, all_double_turns,
                 error, requests>>
  /\ UNCHANGED <<metric_vars, grid_vars, chain_vars>>

\* a loop that skips a pair by its two positions, not by its two points
SkipsPair_ByIndex(o_id, d_id, origin, destination) == o_id = d_id

\* line 221: if origin == destination: continue
SkipsPair(o_id, d_id, origin, destination) == origin = destination

\* the pair after (origin_id, destination_id) in the two nested loops
NextPair ==
  IF destination_id + 1 < Len(dir_points)
  THEN /\ destination_id' = destination_id + 1
       /\ UNCHANGED origin_id
  ELSE /\ destination_id' = 0
       /\ origin_id' = origin_id + 1

\* a loop that puts each new record in front of the earlier ones
AppendRecord_AtFront(c, o_id, d_id, route_data) ==
  LET raw_directions == get_maneuvers_from_routes(route_data)
      lr_directions == get_turns_from_maneuvers(raw_directions)
      double_directions == get_double_turns(lr_directions)
  IN [origin_id_col |-> <<o_id>> \o c.origin_id_col,
      destination_id_col |-> <<d_id>> \o c.destination_id_col,
      raw_directions_col |-> <<raw_directions>> \o c.raw_directions_col,
      lr_directions_col |-> <<lr_directions>> \o c.lr_directions_col,
      double_directions_col |-> <<double_directions>> \o c.double_directions_col]

\* lines 226-234
AppendRecord(c, o_id, d_id, route_data) ==
  LET raw_directions == get_maneuvers_from_routes(route_data)
      lr_directions == get_turns_from_maneuvers(raw_directions)
      double_directions == get_double_turns(lr_directions)
  IN [origin_id_col |-> Append(c.origin_id_col, o_id),
      destination_id_col |-> Append(c.destination_id_col, d_id),
      raw_directions_col |-> Append(c.raw_directions_col, raw_directions),
      lr_directions_col |-> Append(c.lr_directions_col, lr_directions),
      double_directions_col |-> Append(c.double_directions_col, double_directions)]

\* a loop that catches the failure of a route request and goes on with the next pair
OnRouteFailure_Skip(e) ==
  /\ NextPair
  /\ UNCHANGED <<pc, error, cols>>

\* raise_for_status or check_for_errors raises in _get_route_data: nothing in
\* _to_df, Directions.__init__ or MapModel.__init__ catches it
OnRouteFailure(e) ==
  /\ Raise(e)
  /\ UNCHANGED <<origin_id, destination_id, cols>>

\* a call that sends the request whatever the two points are
RoutePrecondition_None(origin, destination) == FALSE

\* the test of _get_route_data, line 186: if origin == destination: raise ValueError
RoutePrecondition(origin, destination) == origin = destination

\* a loop that makes a record of every answer, an empty one too
SkipsRoute_Never(route_data) == FALSE

\* lines 224-225: if not route_data: continue
SkipsRoute(route_data) == route_data.empty

\* one pass of the inner loop of Directions._to_df, lines 220-234, with the call
\* of _get_route_data, lines 186-204
to_df_step ==
  /\ pc = "to_df"
  /\ origin_id < Len(dir_points)
  /\ LET origin == dir_points[origin_id + 1]
         destination == dir_points[destination_id + 1]
     IN IF SkipsPair(origin_id, destination_id, origin, destination)
        THEN /\ NextPair
             /\ UNCHANGED <<pc, cols, error, requests>>
        ELSE IF RoutePrecondition(origin, destination)
        THEN /\ Raise("ValueError: Origin and destination must be different.")
             /\ UNCHANGED <<origin_id, destination_id, cols, requests>>
        ELSE \E response \in RouteResponses :
               /\ Called("route",
                         [origin_id |-> origin_id, destination_id |-> destination_id,
                          body |-> format_route_body(origin, destination)],
                         response)
               /\ CASE response.kind = "HTTPError" ->
                         OnRouteFailure("HTTPError")
                    [] response.kind = "error_message" ->
                         OnRouteFailure("RuntimeError: Google API Error")
                    [] response.kind = "json" ->
                         /\ cols' = IF SkipsRoute(response) THEN cols
                                    ELSE AppendRecord(cols, origin_id, destination_id, response)
                         /\ NextPair
                         /\ UNCHANGED <<pc, error>>
  /\ UNCHANGED <<route_result, sampled, num_points, valid_points, returned_points>>
  /\ UNCHANGED <<module, api_key, choose_random, place, grid_points, snap_i, snap_acc,
                 snapped_points, points_df, dir_points, directions_df, directions,
                 all_double_turns>>
  /\ UNCHANGED <<metric_vars, grid_vars, chain_vars>>

\* lines 236-246, then line 179 and the end of MapModel.__init__; reading an
\* attribute direction_columns does not have raises AttributeError
to_df_finish ==
  /\ pc = "to_df"
  /\ origin_id >= Len(dir_points)
  /\ IF DirectionColumnsRead \subseteq DirectionColumns
     THEN /\ directions_df' = List(Directions_df(cols))
          /\ directions' = [tag |-> "Directions"]
          /\ pc' = "done"
          /\ UNCHANGED error
     ELSE /\ Raise("AttributeError")
          /\ UNCHANGED <<directions_df, directions>>
  /\ UNCHANGED <<route_result, sampled, num_points, valid_points, returned_points>>
  /\ UNCHANGED <<module, api_key, choose_random, place, grid_points, snap_i, snap_acc,
                 snapped_points, points_df, dir_points, origin_id, destination_id, cols,
                 all_double_turns, requests>>
  /\ UNCHANGED <<metric_vars, grid_vars, chain_vars>>

\* a direct call of database.get_route_data(origin, destination, api_key), lines
\* 17-34; Directions._get_route_data, lines 186-204 of map_model.py, is the same
get_route_data_call ==
  /\ pc = "get_route_data"
  /\ LET origin == dir_points[1]
         destination == dir_points[2]
     IN IF RoutePrecondition(origin, destination)
        THEN /\ Raise("ValueError: Origin and destination must be different.")
             /\ UNCHANGED <<route_result, requests>>
        ELSE \E response \in RouteResponses :
               /\ Called("route",
                         [origin_id |-> 0, destination_id |-> 1,
                          body |-> format_route_body(origin, destination)],
                         response)
               /\ CASE response.kind = "HTTPError" ->
                         /\ Raise("HTTPError")
                         /\ UNCHANGED route_result
                    [] response.kind = "error_message" ->
                         /\ Raise("RuntimeError: Google API Error")
                         /\ UNCHANGED route_result
                    [] response.kind = "json" ->
                         /\ route_result' = response
                         /\ pc' = "done"
                         /\ UNCHANGED error
  /\ UNCHANGED <<sampled, num_points, valid_points, returned_points>>
  /\ UNCHANGED <<module, api_key, choose_random, place, grid_points, snap_i, snap_acc,
                 snapped_points, points_df, dir_points, origin_id, destination_id, cols,
                 directions_df, directions, all_double_turns>>
  /\ UNCHANGED <<metric_vars, grid_vars, chain_vars>>

\* the first and the second letter of a double turn
FirstTurn(token) == IF token \in {"LL", "LR"} THEN "L" ELSE "R"
SecondTurn(token) == IF token \in {"LL", "RL"} THEN "L" ELSE "R"

\* an aggregation over the turns of all routes put end to end: between the double
\* turns of two routes comes the token of the last turn of the one and the first
\* turn of the other
extend_Bridged(all, dts) ==
  IF all # <<>> /\ dts # <<>>
  THEN all \o <<Concat(SecondTurn(all[Len(all)]), FirstTurn(dts[1]))>> \o dts
  ELSE all \o dts

\* line 110: all_double_turns += double_turns
extend(all, dts) == all \o dts

\* one pass of the loop of database.get_double_turns, lines 103-110, with the
\* call of database.get_route_data, lines 17-34
get_double_turns_step ==
  /\ pc = "get_double_turns"
  /\ origin_id < Len(dir_points)
  /\ LET origin == dir_points[origin_id + 1]
         destination == dir_points[destination_id + 1]
     IN IF SkipsPair(origin_id, destination_id, origin, destination)
        THEN /\ NextPair
             /\ UNCHANGED <<pc, all_double_turns, error, requests>>
        ELSE IF RoutePrecondition(origin, destination)
        THEN /\ Raise("ValueError: Origin and destination must be different.")
             /\ UNCHANGED <<origin_id, destination_id, all_double_turns, requests>>
        ELSE \E response \in RouteResponses :
               /\ Called("route",
                         [origin_id |-> origin_id, destination_id |-> destination_id,
                          body |-> format_route_body(origin, destination)],
                         response)
               /\ CASE response.kind = "HTTPError" ->
                         /\ OnRouteFailure("HTTPError")
                         /\ UNCHANGED all_double_turns
                    [] response.kind = "error_message" ->
                         /\ OnRouteFailure("RuntimeError: Google API Error")
                         /\ UNCHANGED all_double_turns
                    [] response.kind = "json" ->
                         /\ LET maneuvers == get_maneuvers_from_routes(response)
                                turns == get_turns_from_maneuvers(maneuvers)
                            IN all_double_turns' = extend(all_double_turns, get_double_turns(turns))
                         /\ NextPair
                         /\ UNCHANGED <<pc, error>>
  /\ UNCHANGED <<route_result, sampled, num_points, valid_points, returned_points>>
  /\ UNCHANGED <<module, api_key, choose_random, place, grid_points, snap_i, snap_acc,
                 snapped_points, points_df, dir_points, cols, directions_df, directions>>
  /\ UNCHANGED <<metric_vars, grid_vars, chain_vars>>

\* line 112: return all_double_turns
get_double_turns_finish ==
  /\ pc = "get_double_turns"
  /\ origin_id >= Len(dir_points)
  /\ pc' = "done"
  /\ UNCHANGED <<route_result, sampled, num_points, valid_points, returned_points>>
  /\ UNCHANGED <<module, api_key, choose_random, place, grid_points, snap_i, snap_acc,
                 snapped_points, points_df, dir_points, origin_id, destination_id, cols,
                 directions_df, directions, all_double_turns, error, requests>>
  /\ UNCHANGED <<metric_vars, grid_vars, chain_vars>>

\* random.shuffle(self._grid_points): the orders the stored list may be left in
shuffle_in_place(stored) == Shuffles(stored)

\* CityPoints.get_shuffled_grid_points, lines 31-39 of city_sampler.py, called
\* in the for statement of get_valid_city_points, line 45 of database.py, after
\* lines 43-44; the list it returns is the stored list itself
get_shuffled_grid_points ==
  /\ pc = "get_valid_city_points"
  /\ IF NoGridPoints(grid_points.items)
     THEN /\ Raise("ValueError: No points found in city")
          /\ UNCHANGED <<grid_points, snap_i, valid_points>>
     ELSE /\ grid_points' \in {List(sh) : sh \in shuffle_in_place(grid_points.items)}
          /\ snap_i' = 1
          /\ valid_points' = <<>>
          /\ pc' = "valid_points_loop"
          /\ UNCHANGED error
  /\ UNCHANGED <<module, api_key, choose_random, place, snap_acc, snapped_points, points_df,
                 dir_points, origin_id, destination_id, cols, directions_df, directions,
                 all_double_turns, route_result, sampled, num_points, returned_points,
                 requests>>
  /\ UNCHANGED <<metric_vars, grid_vars, chain_vars>>

\* line 51: if len(valid_points) == num_points
EnoughPoints(valid, n) == Len(valid) = n

\* one pass of the loop of get_valid_city_points, lines 45-52 of database.py,
\* with the call of snap_to_road, lines 65-87
get_valid_city_points_step ==
  /\ pc = "valid_points_loop"
  /\ snap_i <= Len(grid_points.items)
  /\ LET point == grid_points.items[snap_i] IN
     \E response \in SnapResponses :
       /\ Called("snap", SnapRequest(point), response)
       /\ CASE response.kind = "HTTPError" ->
                 /\ Raise("HTTPError")
                 /\ UNCHANGED <<snap_i, valid_points, returned_points>>
            [] response.kind = "error_message" ->
                 /\ Raise("RuntimeError: Google API Error")
                 /\ UNCHANGED <<snap_i, valid_points, returned_points>>
            [] response.kind = "json" ->
                 LET snapped_point == snap_result("database", response) IN
                 IF snapped_point = None
                 THEN /\ snap_i' = snap_i + 1
                      /\ UNCHANGED <<pc, error, valid_points, returned_points>>
                 ELSE /\ valid_points' = Append(valid_points, snapped_point)
                      /\ IF EnoughPoints(valid_points', num_points)
                         THEN /\ returned_points' = List(valid_points')
                              /\ pc' = "done"
                              /\ UNCHANGED <<snap_i, error>>
                         ELSE /\ snap_i' = snap_i + 1
                              /\ UNCHANGED <<pc, error, returned_points>>
  /\ UNCHANGED <<module, api_key, choose_random, place, grid_points, snap_acc, snapped_points,
                 points_df, dir_points, origin_id, destination_id, cols, directions_df,
                 directions, all_double_turns, route_result, sampled, num_points>>
  /\ UNCHANGED <<metric_vars, grid_vars, chain_vars>>

\* the end of get_valid_city_points, lines 54-59 of database.py
get_valid_city_points_finish ==
  /\ pc = "valid_points_loop"
  /\ snap_i > Len(grid_points.items)
  /\ IF valid_points = <<>>
     THEN /\ Raise("ValueError: Could not find any valid points")
          /\ UNCHANGED returned_points
     ELSE /\ returned_points' = List(valid_points)
          /\ pc' = "done"
          /\ UNCHANGED error
  /\ UNCHANGED <<module, api_key, choose_random, place, grid_points, snap_i, snap_acc,
                 snapped_points, points_df, dir_points, origin_id, destination_id, cols,
                 directions_df, directions, all_double_turns, route_result, sampled,
                 num_points, valid_points, requests>>
  /\ UNCHANGED <<metric_vars, grid_vars, chain_vars>>

(***************************************************************************)
(* Specifications.                                                         *)
(***************************************************************************)
InitMetric == MetricInit /\ GridIdle /\ PipeIdle /\ ChainIdle
NextMetric == Call_alternating_turn_metric \/ Call_utils_alternating_metric
SpecMetric == InitMetric /\ [][NextMetric]_vars

InitChain == ChainInit /\ MetricIdle /\ GridIdle /\ PipeIdle
NextChain ==
  \/ Call_get_turns_from_maneuvers
  \/ Call_get_double_turns
  \/ Call_metric_on_double_turns
  \/ Call_utils_metric_on_double_turns
  \/ Call_process_directions
  \/ Call_turn_sequence_alternating_metric
SpecChain == InitChain /\ [][NextChain]_vars

InitGrid == GridInit /\ MetricIdle /\ PipeIdle /\ ChainIdle
NextGrid == GridStart \/ GridOuterTest \/ GridInnerTest \/ GridCandidate \/ GridRerun
SpecGrid == InitGrid /\ [][NextGrid]_vars
\* the sampler is one thread of control: it takes its next step whenever it has one
FairSpecGrid == InitGrid /\ [][NextGrid]_vars /\ WF_vars(NextGrid)

Init == PipeInit /\ MetricIdle /\ GridIdle /\ ChainIdle
Next ==
  \/ get_route_data_call
  \/ Place_init
  \/ PlacePoints_init
  \/ snap_to_road_step
  \/ snap_finish
  \/ Directions_init
  \/ to_df_step
  \/ to_df_finish
  \/ get_double_turns_step
  \/ get_double_turns_finish
  \/ get_shuffled_grid_points
  \/ get_valid_city_points_step
  \/ get_valid_city_points_finish
Spec == Init /\ [][Next]_vars

(***************************************************************************)
(* The properties.                                                         *)
(***************************************************************************)
\* the tokens LR and RL of a sequence
AlternatingCount(dts) == Cardinality({i \in 1..Len(dts) : dts[i] \in {"LR", "RL"}})
AllValid(dts) == \A i \in 1..Len(dts) : dts[i] \in ValidTokens

\* C1: called with a non-empty sequence of tokens all in {LL, LR, RL, RR}, each
\* implementation of the metric returns (number of LR and RL tokens) / (number
\* of tokens).
C1_MetricIsAlternatingFraction ==
  (metric_fn # NotCalled /\ Len(double_turns) > 0 /\ AllValid(double_turns))
    => /\ metric_result.kind = "value"
       /\ metric_result.numer * Len(double_turns)
            = AlternatingCount(double_turns) * metric_result.denom

\* the calls made to one service, in order
CallsTo(api) == SelectSeq(requests, LAMBDA r : r.api = api)
\* the route calls whose answer became a record of the route table
RecordedRouteCalls ==
  SelectSeq(requests, LAMBDA r : r.api = "route" /\ r.response.kind = "json"
                                   /\ ~r.response.empty)
\* the snapped point the point table holds in the row with this id
TableRowNames(id, latlng) ==
  /\ id + 1 <= Len(points_df.items)
  /\ points_df.items[id + 1].snapped_lat = Cell(latlng.latitude)
  /\ points_df.items[id + 1].snapped_lon = Cell(latlng.longitude)

\* C2: the origin id and the destination id of every route record computed for
\* a place model name the row of the point table that holds the point the
\* route was requested for.
C2_RouteIdsNameTableRows ==
  (module = "map_model" /\ points_df # Unset) =>
    LET calls == RecordedRouteCalls IN
    /\ Len(calls) = Len(cols.origin_id_col)
    /\ \A k \in 1..Len(calls) :
         /\ cols.origin_id_col[k] = calls[k].request.origin_id
         /\ cols.destination_id_col[k] = calls[k].request.destination_id
         /\ TableRowNames(cols.origin_id_col[k], calls[k].request.body.origin)
         /\ TableRowNames(cols.destination_id_col[k], calls[k].request.body.destination)

\* C3: the snapping step returns a list as long as the list of grid points, and
\* its element i is the snap result of grid point i, a not-found result (None)
\* included.
C3_SnapResultsKeepPosition ==
  (snapped_points # Unset /\ snapped_points # None) =>
    LET calls == CallsTo("snap") IN
    /\ Len(snapped_points.items) = Len(grid_points.items)
    /\ Len(calls) = Len(grid_points.items)
    /\ \A i \in 1..Len(grid_points.items) :
         /\ calls[i].request = SnapRequest(grid_points.items[i])
         /\ snapped_points.items[i] = snap_result(module, calls[i].response)

\* C4: the route-matrix build requests a route for a pair only if its two points
\* differ in their coordinates; a coordinate-equal pair, at one position or at
\* two, is skipped (the build goes on, the precondition of the route call is
\* never met); so there are at most n*(n-1) requests and records for n points.
C4_NoRouteForEqualPair ==
  module \in {"map_model", "database"} =>
  LET calls == CallsTo("route")
      n == Len(dir_points)
  IN /\ \A k \in 1..Len(calls) :
          /\ calls[k].request.body.origin # calls[k].request.body.destination
          /\ dir_points[calls[k].request.origin_id + 1]
               # dir_points[calls[k].request.destination_id + 1]
     /\ Len(calls) <= n * (n - 1)
     /\ Len(cols.origin_id_col) <= n * (n - 1)
     /\ \A k \in 1..Len(cols.origin_id_col) :
          dir_points[cols.origin_id_col[k] + 1] # dir_points[cols.destination_id_col[k] + 1]
     /\ error # "ValueError: Origin and destination must be different."

\* a build over three points, two of them coordinate-equal, that requested routes
C4_Witness ==
  /\ pc \in {"done", "error"}
  /\ origin_id >= Len(dir_points)
  /\ Len(dir_points) >= 3
  /\ \E i, j \in 1..Len(dir_points) : i # j /\ dir_points[i] = dir_points[j]
  /\ Len(CallsTo("route")) > 0
  /\ Len(cols.origin_id_col) > 0

IsFailure(response) == response.kind \in {"HTTPError", "error_message"}

\* C5: a route request that fails (transport error or API error message) is the
\* last request of the build: the construction ends with that error, and no
\* route table is stored, on Directions or on the model.
C5_FailedRouteAbortsBuild ==
  \A k \in 1..Len(requests) :
    (requests[k].api = "route" /\ IsFailure(requests[k].response)) =>
      /\ k = Len(requests)
      /\ pc = "error"
      /\ error \in {"HTTPError", "RuntimeError: Google API Error"}
      /\ directions_df = Unset
      /\ directions = Unset

\* a route request failed after records were already computed
C5_Witness ==
  /\ Len(requests) > 0
  /\ requests[Len(requests)].api = "route"
  /\ requests[Len(requests)].response.kind = "error_message"
  /\ Len(cols.origin_id_col) > 0
  /\ pc = "error"

\* C6: for a granularity g >= 1 the sampler holds, and returns, at most g*g
\* points.
C6_AtMostGranularitySquared ==
  num >= 1 => Len(gs_points) <= num * num

\* the sampler returned exactly g*g points, g >= 2
C6_Witness ==
  /\ gs_pc = "returned"
  /\ num >= 2
  /\ Len(gs_points) = num * num

\* C7: every point of the sampler's list was accepted by the polygon's
\* containment test, and no candidate the test rejected is in the list.
C7_OnlyContainedPoints ==
  /\ \A i \in 1..Len(gs_points) : gs_points[i] \in accepted
  /\ \A c \in rejected : \A i \in 1..Len(gs_points) : gs_points[i] # c

\* the sampler returned points, having rejected a candidate inside the rectangle
C7_Witness ==
  /\ gs_pc = "returned"
  /\ num >= 1
  /\ gs_points # <<>>
  /\ \E c \in rejected : StrictlyInsideBounds(c)

DegenerateX == gs_pc # "idle" /\ num >= 1 /\ bounds.minx = bounds.maxx

\* C8: on a rectangle with minx = maxx and a granularity >= 1, sampling
\* terminates, raises nothing, and returns points of one column at most.
C8_DegenerateXTerminates ==
  /\ [](DegenerateX => <>(gs_pc = "returned"))
  /\ [](DegenerateX => /\ gs_pc # "raised"
                       /\ \A i, j \in 1..Len(gs_points) : gs_points[i][1] = gs_points[j][1])

\* C9: with a granularity <= 0 sampling fails fast: it raises before it tests
\* or returns any candidate.
C9_NonPositiveGranularityFailsFast ==
  (gs_pc # "idle" /\ num <= 0) =>
    /\ gs_pc \in {"start", "raised"}
    /\ accepted = {} /\ rejected = {} /\ gs_points = <<>>

\* C10: when grid sampling yields no point, the construction of the point set
\* raises, and no snap or route request was made.
C10_NoGridPointsIsFatal ==
  (module \in {"map_model", "city_points"}
     /\ grid_points # Unset /\ Len(grid_points.items) = 0) =>
    /\ pc = "error"
    /\ error = "ValueError: No points found"
    /\ CallsTo("snap") = <<>>
    /\ CallsTo("route") = <<>>

\* sampling yielded no point for a place built with an API key
C10_Witness ==
  /\ grid_points # Unset
  /\ Len(grid_points.items) = 0
  /\ api_key # None
  /\ pc = "error"

Classifiable(label) == Contains(label, "LEFT") \/ Contains(label, "RIGHT")
LetterOf(label) == IF Contains(label, "LEFT") THEN "L" ELSE "R"
\* the labels with LEFT or RIGHT, in their order, each as its letter
ReductionOf(labels) ==
  LET kept == SelectSeq(labels, Classifiable)
  IN [i \in 1..Len(kept) |-> LetterOf(kept[i])]

\* C11: the turn sequence of a maneuver list is its order-preserving reduction:
\* L for a label with LEFT, R for a label with RIGHT and no LEFT, nothing for
\* any other label; it is no longer than the maneuver list, and
\* [TURN_LEFT, STRAIGHT, TURN_RIGHT] gives [L, R].
C11_TurnsAreReduction ==
  ch_turns # Unset =>
    /\ ch_turns.items = ReductionOf(ch_maneuvers)
    /\ Len(ch_turns.items) <= Len(ch_maneuvers)
    /\ (ch_maneuvers = <<<<"TURN", "LEFT">>, <<"STRAIGHT">>, <<"TURN", "RIGHT">>>>
          => ch_turns.items = <<"L", "R">>)

\* a list with a label of both words and a label of neither was reduced
C11_Witness ==
  /\ ch_pc = "turns"
  /\ Len(ch_maneuvers) = 3
  /\ \E i \in 1..3 : ch_maneuvers[i] = <<"LEFT", "RIGHT">>
  /\ \E i \in 1..3 : ch_maneuvers[i] = <<"STRAIGHT">>
  /\ Len(ch_turns.items) = 2

\* the two letters of a double turn
LettersOf(token) ==
  CASE token = "LL" -> <<"L", "L">>
    [] token = "LR" -> <<"L", "R">>
    [] token = "RL" -> <<"R", "L">>
    [] token = "RR" -> <<"R", "R">>
    [] OTHER -> <<>>

\* C12: the double turns of a turn sequence t of length n are max(0, n-1)
\* tokens, the i-th made of t[i] then t[i+1], each one of LL, LR, RL, RR; there
\* is none when n < 2.
C12_DoubleTurnsAreAdjacentPairs ==
  ch_double_turns # Unset =>
    LET t == ch_turns.items
        d == ch_double_turns.items
    IN /\ Len(d) = (IF Len(t) = 0 THEN 0 ELSE Len(t) - 1)
       /\ \A i \in 1..Len(d) :
            /\ d[i] \in {"LL", "LR", "RL", "RR"}
            /\ LettersOf(d[i]) = <<t[i], t[i + 1]>>
       /\ (Len(t) < 2 => d = <<>>)

\* three turns gave two overlapping double turns
C12_Witness ==
  /\ ch_pc = "double_turns"
  /\ ch_turns.items = <<"L", "R", "R">>
  /\ ch_double_turns.items = <<"LR", "RR">>

\* C13: called with a sequence that holds, at any position, a token that is not
\* one of LL, LR, RL, RR, each implementation of the metric raises ValueError
\* and returns no value.
C13_BadTokenRaises ==
  (metric_fn # NotCalled
     /\ \E i \in 1..Len(double_turns) : double_turns[i] \notin {"LL", "LR", "RL", "RR"})
    => metric_result = Raised("ValueError")

\* the bad token came last, after an alternating one
C13_Witness ==
  /\ metric_fn = "utils.alternating_metric"
  /\ double_turns = <<"LR", "LL", "XX">>
  /\ metric_result = Raised("ValueError")

\* the turn sequence a metric of the chain was computed from
UnderlyingTurns == IF ch_int_turns # Unset THEN ch_int_turns.items ELSE ch_turns.items

\* C14: on an empty double-turn sequence, that is on a turn sequence of length
\* 0 or 1, each metric ends in an error (ValueError where the length is tested,
\* ZeroDivisionError where the count is divided by the length 0) and returns
\* no number.
C14_EmptyInputRaises ==
  (ch_pc = "metric" /\ Len(UnderlyingTurns) < 2) =>
    /\ ch_metric_result.kind = "raise"
    /\ ch_metric_result.error \in {"ValueError", "ZeroDivisionError"}
    /\ (ch_metric_fn = "turn_sequence.alternating_metric"
          => ch_metric_result = Raised("ValueError"))

\* a route of one turn: no double turn, and the metric of analysis raised
C14_Witness ==
  /\ ch_pc = "metric"
  /\ ch_metric_fn = "analysis.alternating_turn_metric"
  /\ Len(ch_turns.items) = 1
  /\ ch_double_turns.items = <<>>
  /\ ch_metric_result = Raised("ZeroDivisionError")

\* every external call made so far was answered without an error
AllCallsSucceeded ==
  \A k \in 1..Len(requests) : requests[k].response.kind \in {"found", "json"}
ConstructionEnded == pc \in {"done", "error"}

\* C15: with an API key, when the geocode call, every snap call and every route
\* call succeed (and the grid is not empty), MapModel.__init__ ends without an
\* error and the model holds the place, the point table and a route table with
\* one record for every route call that returned a route.
C15_KeyedBuildExposesThreeTables ==
  (module = "map_model" /\ api_key # None /\ choose_random = None
     /\ ConstructionEnded /\ AllCallsSucceeded
     /\ grid_points # Unset /\ Len(grid_points.items) > 0)
    => /\ pc = "done"
       /\ error = NoError
       /\ place # Unset
       /\ points_df # Unset
       /\ directions # Unset
       /\ directions_df # Unset
       /\ Len(directions_df.items) = Len(RecordedRouteCalls)

\* C16: without an API key the construction is a points-only one: no snap and
\* no route request is ever made; once the place is geocoded and the grid is
\* not empty it ends without error, with the grid points and the point table,
\* with snapped points None, and (MapModel) directions None and no route table.
C16_NoKeyIsPointsOnly ==
  api_key = None =>
    /\ CallsTo("snap") = <<>>
    /\ CallsTo("route") = <<>>
    /\ (grid_points # Unset /\ Len(grid_points.items) > 0) =>
         /\ pc = "done"
         /\ error = NoError
         /\ snapped_points = None
         /\ directions_df = Unset
         /\ module = "map_model" =>
              /\ directions = None
              /\ points_df # Unset
              /\ Len(points_df.items) = Len(grid_points.items)
              /\ \A i \in 1..Len(points_df.items) :
                   /\ points_df.items[i].snapped_lat = NaN
                   /\ points_df.items[i].grid_lat = Cell(grid_points.items[i].y)

\* a place model of several grid points was built without a key
C16_Witness ==
  /\ api_key = None
  /\ module = "map_model"
  /\ pc = "done"
  /\ Len(grid_points.items) >= 2
  /\ directions = None

\* geocode first, then snap, then route
Rank(api) == CASE api = "geocode" -> 1 [] api = "snap" -> 2 [] api = "route" -> 3

\* the order of the calls made so far in the construction of a place model
CallsInOrder ==
  module \in {"map_model", "city_points"} =>
    /\ \A i, j \in 1..Len(requests) :
         i < j => /\ Rank(requests[i].api) <= Rank(requests[j].api)
                  /\ requests[i].api = "geocode" => requests[i].response.kind = "found"
    /\ Len(requests) > 0 => requests[1].api = "geocode"
    /\ Len(CallsTo("geocode")) <= 1
    /\ Len(CallsTo("snap")) > 0 => Len(CallsTo("snap")) <= Len(grid_points.items)
    /\ Len(CallsTo("route")) > 0 =>
         /\ Len(CallsTo("snap")) = Len(grid_points.items)
         /\ \A k \in 1..Len(CallsTo("snap")) : CallsTo("snap")[k].response.kind = "json"

\* a step makes at most one call, and the call has returned when the step ends:
\* the log only grows, by one answered call
OneCallAStep ==
  /\ Len(requests') <= Len(requests) + 1
  /\ SubSeq(requests', 1, Len(requests)) = requests

\* C17: in the construction of a place model the external calls are made in the
\* order geocode, then one snap call for each grid point, then the route calls:
\* a snap call follows the answered geocode call, a route call follows the last
\* answered snap call, and the calls are made one at a time.
C17_CallsInOrder == [](CallsInOrder) /\ [][OneCallAStep]_vars

\* a construction that made several snap calls and then several route calls
C17_Witness ==
  /\ module = "map_model"
  /\ Len(CallsTo("snap")) >= 2
  /\ Len(CallsTo("route")) >= 2
  /\ requests[1].api = "geocode"

\* C18: a route computation called with an origin equal to its destination ends
\* with ValueError and sends nothing: no request is logged, no route data is
\* returned; and no route request of any construction carries two equal points.
C18_EqualPointsRaiseBeforeRequest ==
  /\ (module = "get_route_data" /\ pc # "get_route_data" /\ dir_points[1] = dir_points[2])
       => /\ pc = "error"
          /\ error = "ValueError: Origin and destination must be different."
          /\ requests = <<>>
          /\ route_result = Unset
  /\ \A k \in 1..Len(requests) :
       requests[k].api = "route"
         => requests[k].request.body.origin # requests[k].request.body.destination

\* the call was made with two equal points, and has ended
C18_Witness ==
  /\ module = "get_route_data"
  /\ dir_points[1] = dir_points[2]
  /\ pc = "error"

\* C19: one axis convention from snapping to route formatting: the latitude and
\* the longitude a route request carries for a point are the latitude and the
\* longitude the snap service returned for it, and the latitude sent to the snap
\* service is the grid point's latitude (its y).
C19_OneAxisConvention ==
  /\ \A k \in 1..Len(requests) :
       requests[k].api = "route" =>
         /\ requests[k].request.body.origin \in RoadLocations
         /\ requests[k].request.body.destination \in RoadLocations
         /\ module = "map_model" =>
              \A end \in {requests[k].request.body.origin,
                          requests[k].request.body.destination} :
                \E j \in 1..k : /\ requests[j].api = "snap"
                                /\ requests[j].response.kind = "json"
                                /\ requests[j].response.snappedPoints = <<end>>
  /\ \A k \in 1..Len(CallsTo("snap")) :
       /\ CallsTo("snap")[k].request.latitude = grid_points.items[k].y
       /\ CallsTo("snap")[k].request.longitude = grid_points.items[k].x

\* p comes before q in the raster scan, x-major and y-minor
RasterBefore(p, q) == p[1] < q[1] \/ (p[1] = q[1] /\ p[2] < q[2])

\* C20: the points of the sampler's list are in raster scan order, x-major and
\* y-minor: of two points the earlier has the smaller x, or the same x and the
\* smaller y; so no point is in the list twice.
C20_RasterOrder ==
  \A i, j \in 1..Len(gs_points) :
    i < j => /\ RasterBefore(gs_points[i], gs_points[j])
             /\ gs_points[i] # gs_points[j]

\* the sampler returned two columns of two points
C20_Witness ==
  /\ gs_pc = "returned"
  /\ Len(gs_points) = 4
  /\ gs_points[1][1] = gs_points[2][1]
  /\ gs_points[2][1] < gs_points[3][1]
  /\ gs_points[3][1] = gs_points[4][1]

\* (o1, d1) comes before (o2, d2) in the enumeration of the two nested loops
PairBefore(o1, d1, o2, d2) == o1 < o2 \/ (o1 = o2 /\ d1 < d2)

\* C21: route requests are made, and records appended, in the order of the two
\* nested loops, origin-major and destination-minor: each request, and each
\* record, has a greater (origin index, destination index) than the one before; the
\* records are those of the requests that returned a route, in their order; and
\* the ids 0..k-1 the table gives the records follow that order.
C21_PairsInProductOrder ==
  /\ LET calls == CallsTo("route") IN
     \A i \in 1..(Len(calls) - 1) :
       PairBefore(calls[i].request.origin_id, calls[i].request.destination_id,
                  calls[i + 1].request.origin_id, calls[i + 1].request.destination_id)
  /\ \A i \in 1..(Len(cols.origin_id_col) - 1) :
       PairBefore(cols.origin_id_col[i], cols.destination_id_col[i],
                  cols.origin_id_col[i + 1], cols.destination_id_col[i + 1])
  /\ module = "map_model" =>
       LET recorded == RecordedRouteCalls IN
       /\ Len(cols.origin_id_col) = Len(recorded)
       /\ \A k \in 1..Len(cols.origin_id_col) :
            /\ cols.origin_id_col[k] = recorded[k].request.origin_id
            /\ cols.destination_id_col[k] = recorded[k].request.destination_id
  /\ LET df == Directions_df(cols) IN
     \A k \in 1..Len(df) :
       /\ df[k].id = k - 1
       /\ df[k].origin_id = cols.origin_id_col[k]
       /\ df[k].destination_id = cols.destination_id_col[k]

\* records of two origins, the destination index of the later one the smaller
C21_Witness ==
  /\ module = "map_model"
  /\ Len(cols.origin_id_col) >= 3
  /\ \E k \in 1..(Len(cols.origin_id_col) - 1) :
       /\ cols.origin_id_col[k] < cols.origin_id_col[k + 1]
       /\ cols.destination_id_col[k] > cols.destination_id_col[k + 1]

\* s is the beginning of t
IsPrefix(s, t) == Len(s) <= Len(t) /\ SubSeq(t, 1, Len(s)) = s

\* C22: a second call of the sampler on the same polygon with the same
\* granularity returns the sequence the first call returned, the same points in
\* the same order; while it runs its list is the beginning of that sequence.
C22_SamplerIsDeterministic ==
  gs_run = 2 =>
    /\ gs_pc \notin {"start", "raised"} => IsPrefix(gs_points, gs_first.items)
    /\ gs_pc = "returned" => gs_points = gs_first.items

\* the second call returned; the polygon kept some candidates of its rectangle
\* and rejected others
C22_Witness ==
  /\ gs_run = 2
  /\ gs_pc = "returned"
  /\ Len(gs_points) >= 2
  /\ \E c \in rejected : StrictlyInsideBounds(c)

\* C23: once the place is sampled, the stored sequence of grid points holds the
\* same points at the same positions as right after sampling, whatever was
\* called on the object since: get_shuffled_grid_points, snapping, the building
\* of directions with or without a random subset.
C23_GridPointsIndexStable ==
  grid_points # Unset =>
    /\ sampled # Unset
    /\ Len(grid_points.items) = Len(sampled.items)
    /\ \A i \in 1..Len(sampled.items) : grid_points.items[i] = sampled.items[i]

\* C24: a snap call that fails (HTTP error raised, or an answer that carries
\* an API error message) is the last call of the run: the run ends with that
\* error, no snap request is made for a later point, and no list of snap
\* results, partial or whole, is returned or stored.
C24_FailedSnapAbortsRun ==
  \A k \in 1..Len(requests) :
    (requests[k].api = "snap" /\ IsFailure(requests[k].response)) =>
      /\ k = Len(requests)
      /\ pc = "error"
      /\ error = (IF requests[k].response.kind = "HTTPError"
                  THEN "HTTPError" ELSE "RuntimeError: Google API Error")
      /\ Len(CallsTo("snap")) <= Len(grid_points.items)
      /\ snapped_points = Unset
      /\ points_df = Unset
      /\ returned_points = Unset
      /\ directions = Unset

\* the snap call for the second of three grid points failed, after the first
\* was snapped to a road
C24_Witness ==
  /\ module = "map_model"
  /\ grid_points # Unset
  /\ Len(grid_points.items) = 3
  /\ Len(CallsTo("snap")) = 2
  /\ CallsTo("snap")[1].response.kind = "json"
  /\ CallsTo("snap")[2].response.kind = "error_message"
  /\ Len(snap_acc) = 1 /\ snap_acc[1] # None
  /\ pc = "error"

IsEmptyAnswer(r) == r.api = "route" /\ r.response.kind = "json" /\ r.response.empty
\* the pairs of positions of the list whose two points differ
UnequalPairs ==
  {pair \in (0..(Len(dir_points) - 1)) \X (0..(Len(dir_points) - 1)) :
     dir_points[pair[1] + 1] # dir_points[pair[2] + 1]}
\* the two loops over the pairs have ended
PairLoopEnded ==
  /\ module \in {"map_model", "database"}
  /\ pc \in {"to_df", "get_double_turns", "done", "error"}
  /\ origin_id >= Len(dir_points)

\* C25: an empty answer (no error) to the route request of a pair of different
\* points adds no record for the pair and is no error: the build goes on with
\* the next pair, and when the loops end without a failed request every pair of
\* different points was requested once and every non-empty answer has its record.
C25_EmptyRouteIsSkipped ==
  /\ \A k \in 1..Len(requests) :
       IsEmptyAnswer(requests[k]) =>
         /\ error \in {NoError, "AttributeError"}
              \/ (k < Len(requests) /\ IsFailure(requests[Len(requests)].response))
         /\ \A j \in 1..Len(cols.origin_id_col) :
              <<cols.origin_id_col[j], cols.destination_id_col[j]>>
                # <<requests[k].request.origin_id, requests[k].request.destination_id>>
         /\ (k = Len(requests) /\ module \in {"map_model", "database"}) =>
              \/ PairLoopEnded
              \/ /\ pc \in {"to_df", "get_double_turns"}
                 /\ PairBefore(requests[k].request.origin_id, requests[k].request.destination_id,
                               origin_id, destination_id)
  /\ (PairLoopEnded /\ \A k \in 1..Len(requests) : ~IsFailure(requests[k].response)) =>
       LET calls == CallsTo("route")
           unequal == UnequalPairs
       IN
       /\ {<<calls[k].request.origin_id, calls[k].request.destination_id>> :
             k \in 1..Len(calls)} = unequal
       /\ Len(calls) = Cardinality(unequal)
       /\ module = "map_model" => Len(cols.origin_id_col) = Len(RecordedRouteCalls)

\* the loops ended; the first answer was empty, a later one was recorded
C25_Witness ==
  /\ module = "map_model"
  /\ PairLoopEnded
  /\ Len(CallsTo("route")) >= 2
  /\ IsEmptyAnswer(CallsTo("route")[1])
  /\ Len(cols.origin_id_col) >= 1
  /\ error \in {NoError, "AttributeError"}

\* the snap calls among the first k calls that found a road
SnappedAmong(k) ==
  Cardinality({j \in 1..k : /\ requests[j].api = "snap"
                            /\ requests[j].response.kind = "json"
                            /\ requests[j].response.snappedPoints # <<>>})

\* C26: get_valid_city_points returns at most num_points points, for every
\* num_points, 0 included, and every pattern of snap answers; and every snap
\* request it makes is made while fewer than num_points points were collected.
C26_AtMostNumPoints ==
  module = "get_valid_city_points" =>
    /\ returned_points # Unset => Len(returned_points.items) <= num_points
    /\ Len(valid_points) <= num_points
    /\ \A k \in 1..Len(requests) : SnappedAmong(k - 1) < num_points

\* every grid point was sent to the snap service, and none has a road near it
AllSnapsNotFound ==
  /\ grid_points # Unset
  /\ Len(grid_points.items) > 0
  /\ Len(CallsTo("snap")) = Len(grid_points.items)
  /\ \A k \in 1..Len(CallsTo("snap")) :
       /\ CallsTo("snap")[k].response.kind = "json"
       /\ CallsTo("snap")[k].response.snappedPoints = <<>>

\* C27: when every grid point of a place snaps to 'not found', the snapping
\* stage raises ValueError ('Could not find any valid points') and returns and
\* stores no result, and no route enumeration is started on the place.
C27_NoValidPointIsFatal ==
  (AllSnapsNotFound /\ pc \notin {"snap", "valid_points_loop"}) =>
    /\ pc = "error"
    /\ error = "ValueError: Could not find any valid points"
    /\ snapped_points = Unset
    /\ returned_points = Unset
    /\ CallsTo("route") = <<>>

\* Directions.__init__ has chosen the points of the route matrix
DirectionsChosen ==
  /\ module = "map_model"
  /\ snapped_points # Unset /\ snapped_points # None
  /\ pc # "Directions"

Min(a, b) == IF a < b THEN a ELSE b

\* chosen takes its elements from distinct positions of available
DistinctSelection(chosen, available) ==
  \E f \in [1..Len(chosen) -> 1..Len(available)] :
    /\ \A i, j \in 1..Len(chosen) : f[i] = f[j] => i = j
    /\ \A i \in 1..Len(chosen) : chosen[i] = available[f[i]]

\* C28: built with choose_random = k, k >= 0, Directions computes the routes
\* over exactly min(k, m) of the m snapped points that are not None, taken from
\* distinct positions, and makes at most k*(k-1) route requests; built without
\* choose_random it uses all m, in their order.
C28_RandomSubsetSize ==
  DirectionsChosen =>
    LET available == NotNone(snapped_points.items)
        m == Len(available)
    IN /\ choose_random = None => dir_points = available
       /\ (choose_random # None /\ choose_random.value >= 0) =>
            /\ Len(dir_points) = Min(choose_random.value, m)
            /\ DistinctSelection(dir_points, available)
            /\ Len(CallsTo("route")) <= choose_random.value * (choose_random.value - 1)
       /\ Len(CallsTo("route")) <= m * (m - 1)

\* two of three snapped points were chosen, and both routes between them requested
C28_Witness ==
  /\ DirectionsChosen
  /\ choose_random = Int_(2)
  /\ Len(NotNone(snapped_points.items)) = 3
  /\ Len(CallsTo("route")) = 2
  /\ origin_id >= Len(dir_points)

\* the 0/1 turns and the L/R turns name the same sequence of left and right turns
SameTurns(int_turns, lr_turns) ==
  /\ Len(int_turns) = Len(lr_turns)
  /\ \A i \in 1..Len(int_turns) : (int_turns[i] = 0) <=> (lr_turns[i] = "L")

\* two results are the same number
SameValue(r1, r2) ==
  /\ r1.kind = "value" /\ r2.kind = "value"
  /\ r1.numer * r2.denom = r2.numer * r1.denom

\* what the other formulation gives for the route of the chain: the metric on
\* 0/1 turns where the chain applied the metric on double turns, and the reverse
OtherFormulation ==
  IF ch_metric_fn = "turn_sequence.alternating_metric"
  THEN alternating_turn_metric(get_double_turns(get_turns_from_maneuvers(ch_maneuvers)))
  ELSE turn_sequence_alternating_metric(process_directions_turns(ch_maneuvers))

\* C29: for a sequence of two turns or more the metric on 0/1 turns (adjacent
\* unequal turns over len - 1) and analysis.alternating_turn_metric on the
\* double turns of the same sequence return the same number; for a sequence of
\* fewer than two turns both raise an error.
C29_FormulationsAgree ==
  (ch_pc = "metric" /\ ch_metric_fn \in {"turn_sequence.alternating_metric",
                                         "analysis.alternating_turn_metric"}) =>
    LET int_turns == process_directions_turns(ch_maneuvers)
        lr_turns == get_turns_from_maneuvers(ch_maneuvers)
    IN /\ SameTurns(int_turns, lr_turns)
       /\ ch_int_turns # Unset => ch_int_turns.items = int_turns
       /\ ch_turns # Unset => ch_turns.items = lr_turns
       /\ Len(lr_turns) >= 2 => SameValue(ch_metric_result, OtherFormulation)
       /\ Len(lr_turns) < 2 => /\ ch_metric_result.kind = "raise"
                               /\ OtherFormulation.kind = "raise"

\* the metric on the 0/1 turns left, right, right: one alternation of two
C29_Witness ==
  /\ ch_pc = "metric"
  /\ ch_metric_fn = "turn_sequence.alternating_metric"
  /\ ch_int_turns.items = <<0, 1, 1>>
  /\ ch_metric_result = Returned(1, 2)

\* the route calls that were answered without an error, in order
AnsweredRouteCalls ==
  SelectSeq(requests, LAMBDA r : r.api = "route" /\ r.response.kind = "json")
\* the turns of the route of an answer
TurnsOfAnswer(r) == get_turns_from_maneuvers(get_maneuvers_from_routes(r.response))

RECURSIVE RouteByRoute(_)
\* the double turns of each route on its own, one route after the other
RouteByRoute(calls) ==
  IF calls = <<>> THEN <<>>
  ELSE RouteByRoute(SubSeq(calls, 1, Len(calls) - 1))
         \o get_double_turns(TurnsOfAnswer(calls[Len(calls)]))

RECURSIVE SumOfAdjacentPairs(_)
\* the sum over the routes of max(0, turns of the route - 1)
SumOfAdjacentPairs(calls) ==
  IF calls = <<>> THEN 0
  ELSE LET n == Len(TurnsOfAnswer(calls[Len(calls)]))
       IN SumOfAdjacentPairs(SubSeq(calls, 1, Len(calls) - 1)) + (IF n = 0 THEN 0 ELSE n - 1)

\* C30: the double turns get_double_turns collects over the ordered pairs of a
\* point list are the double turns of each route on its own, put one after the
\* other in the order of the pairs: no token joins the last turn of a route to
\* the first turn of the next, and their number is the sum over the routes of
\* max(0, turns of the route - 1).
C30_AggregateIsConcatenation ==
  module = "database" =>
    LET calls == AnsweredRouteCalls IN
    /\ all_double_turns = RouteByRoute(calls)
    /\ Len(all_double_turns) = SumOfAdjacentPairs(calls)
    /\ \A i \in 1..(Len(calls) - 1) :
         PairBefore(calls[i].request.origin_id, calls[i].request.destination_id,
                    calls[i + 1].request.origin_id, calls[i + 1].request.destination_id)

\* routes of two turns, of one turn and of two turns again were aggregated
C30_Witness ==
  /\ module = "database"
  /\ pc = "done"
  /\ Len(AnsweredRouteCalls) >= 3
  /\ \E k \in 1..(Len(AnsweredRouteCalls) - 2) :
       /\ Len(TurnsOfAnswer(AnsweredRouteCalls[k])) = 2
       /\ Len(TurnsOfAnswer(AnsweredRouteCalls[k + 1])) = 1
       /\ Len(TurnsOfAnswer(AnsweredRouteCalls[k + 2])) = 2
  /\ Len(all_double_turns) >= 2
====
